---- MODULE Spec2Model ----
(***************************************************************************)
(* tx_tools: the tone scheduler of pulse_beep (src/src/pulse_beep.c) and   *)
(* the stream mixer of sdr_mix (src/src/sdr_mix.c), each modelled as the   *)
(* sequential program its main() is, one action per statement group.       *)
(* Arrays keep the C indexing (from 0); a NULL pointer is the index -1.    *)
(***************************************************************************)
EXTENDS Integers, Sequences, FiniteSets, TLC

VARIABLES
    pc,          \* position in main() of the running tool
    i,           \* the loop counter `i` of the running tool
    beeps_idx,   \* pulse_beep: index of the last declared beep source
    beeps,       \* pulse_beep: beeps[0..beeps_idx], records of beep_t
    tones_idx,   \* pulse_beep: number of tones written
    tones,       \* pulse_beep: tones[0..29], records of tone_t
    gap,         \* pulse_beep: local `gap` of the scheduling loop
    beep,        \* pulse_beep: local `beep`, as an index into beeps (-1 = NULL)
    inputs_idx,  \* sdr_mix: index of the last declared input channel
    inputs,      \* sdr_mix: inputs[0..inputs_idx], the gain of each input_t
    frame_size,  \* sdr_mix: the block size in bytes
    blk_cu8,     \* sdr_mix: the unsigned block, blk_cu8[0..frame_size-1]
    blk_cs8,     \* sdr_mix: the signed accumulator, blk_cs8[0..frame_size-1]
    write_size,  \* sdr_mix: local `write_size` of the mixing loop
    rns,         \* sdr_mix: what the last read() returned (r1s, rns)
    files,       \* sdr_mix: the bytes of each input file
    pos,         \* sdr_mix: the file offset of each input descriptor
    out,         \* sdr_mix: the bytes written to the output file so far
    fds,         \* sdr_mix: the open descriptors (channel indices, then w_fd)
    errs,        \* sdr_mix: the number of read()/write() calls that have failed
    fail,        \* sdr_mix: which call failed last ("none", "r0", "rn", "w")
    narrow,      \* sdr_mix: what the build makes of an out-of-range (int8_t)double
    io,          \* sdr_mix: the read()/write() calls of the current iteration, in
                 \*          order, each with its descriptor and what it returned
    short        \* sdr_mix: some read() has returned less than was there to fill
                 \*          the block

beepVars == <<beeps_idx, beeps, tones_idx, tones, gap, beep>>
mixVars == <<inputs_idx, inputs, frame_size, blk_cu8, blk_cs8, write_size, rns,
             files, pos, out, fds, errs, fail, narrow, io, short>>
vars == <<pc, i, beepVars, mixVars>>

(***************************************************************************)
(* Bounds of the model.                                                    *)
(***************************************************************************)
MaxBeeps == 2        \* beep sources declared (the code allows 32)
MaxIntv == 2         \* largest interval in ms
MaxLen == 1          \* largest beep length in ms
RandSteps == 2       \* rand() results tried: the k/RandSteps points of 0..RAND_MAX

(***************************************************************************)
(* Program constants.                                                      *)
(***************************************************************************)
INT_MAX == 2147483647
RAND_MAX == 32767       \* the least value the C library may define
TonesLen == 30          \* tone_t tones[30]
StartSilenceMs == 500   \* .us = 500 * 1000
SilenceDb == -99
BaseFreq == 158         \* frequencies of the sample command line, in MHz
NULL == -1

ZeroTone == [hz |-> 0, db |-> 0, us |-> 0]

\* ms to us, as in `gap * 1000` and `beep->len * 1000`
UsMs(ms) == ms
Us(ms) == ms * 1000

StartSilence == [hz |-> 0, db |-> SilenceDb, us |-> Us(StartSilenceMs)]

\* The values rand() is let return: both ends of 0..RAND_MAX, the value next
\* to the upper end, and RandSteps - 1 points between.
RandVals == {(k * RAND_MAX) \div RandSteps : k \in 0..RandSteps} \cup {RAND_MAX - 1}

\* The sources the options declare: source k has its own frequency and
\* attenuation, and any length and interval within the bounds.
BeepConfigs(idx) ==
    { [k \in 0..idx |-> [freq |-> BaseFreq + k, att |-> 0 - k,
                         len |-> l[k], intv |-> v[k], next |-> 0]] :
        l \in [0..idx -> 0..MaxLen], v \in [0..idx -> 0..MaxIntv] }

\* p->next = (int)((long long)p->intv * rand() / RAND_MAX) + 1
InitNextFloor(intv, r) == (intv * r) \div RAND_MAX
InitNext(intv, r) == ((intv * r) \div RAND_MAX) + 1

\* while (tones_idx < 30 - 2)
LoopCondOver(idx) == idx < TonesLen
LoopCond(idx) == idx < TonesLen - 2

\* if (p->next < gap)
NextLessEq(n, g) == n <= g
NextLess(n, g) == n < g

\* for (i = 0; i <= beeps_idx; ++i) if (p->next < gap) { gap = p->next; beep = p; }
\* from source k on, with the gap and the beep found so far
RECURSIVE FindFrom(_, _, _)
FindFrom(k, g, b) ==
    IF k > beeps_idx THEN <<g, b>>
    ELSE IF NextLess(beeps[k].next, g)
         THEN FindFrom(k + 1, beeps[k].next, k)
         ELSE FindFrom(k + 1, g, b)

\* if (p->next <= gap) p->next = p->intv; else p->next -= gap;
AdvanceNextStrict(p, g) == IF p.next < g THEN p.intv ELSE p.next - g
AdvanceNext(p, g) == IF p.next <= g THEN p.intv ELSE p.next - g

\* sdr_mix is not running: its variables hold no channel and no block.
MixIdle ==
    /\ inputs_idx = 0
    /\ inputs = <<>>
    /\ frame_size = 0
    /\ blk_cu8 = <<>>
    /\ blk_cs8 = <<>>
    /\ write_size = 0
    /\ rns = 0
    /\ files = <<>>
    /\ pos = <<>>
    /\ out = <<>>
    /\ fds = {}
    /\ errs = 0
    /\ fail = "none"
    /\ narrow = "wrap"
    /\ io = <<>>
    /\ short = FALSE

(***************************************************************************)
(* pulse_beep: the state when the scheduler starts (after the options, the *)
(* tones array zeroed and the start silence written).                      *)
(***************************************************************************)
InitBeep ==
    /\ pc = "rand"
    /\ i = 0
    /\ beeps_idx \in 0..(MaxBeeps - 1)
    /\ beeps \in BeepConfigs(beeps_idx)
    /\ tones_idx = 1
    /\ tones = [k \in 0..(TonesLen - 1) |-> IF k = 0 THEN StartSilence ELSE ZeroTone]
    /\ gap = 0
    /\ beep = NULL
    /\ MixIdle

\* One pass of the loop that draws each source's first countdown.
DrawNext ==
    /\ pc = "rand"
    /\ i <= beeps_idx
    /\ \E r \in RandVals :
          beeps' = [beeps EXCEPT ![i].next = InitNext(beeps[i].intv, r)]
    /\ i' = i + 1
    /\ pc' = IF i = beeps_idx THEN "while" ELSE "rand"
    /\ UNCHANGED <<beeps_idx, tones_idx, tones, gap, beep, mixVars>>

\* The loop test passes: find the next beep. (beep stays NULL only when
\* every countdown is INT_MAX, which the bounded intervals never reach.)
FindNext ==
    /\ pc = "while"
    /\ LoopCond(tones_idx)
    /\ LET f == FindFrom(0, INT_MAX, NULL) IN
          /\ gap' = f[1]
          /\ beep' = f[2]
    /\ pc' = "silence"
    /\ UNCHANGED <<i, beeps_idx, beeps, tones_idx, tones, mixVars>>

\* The loop test fails: the tones go to the renderer.
LoopExit ==
    /\ pc = "while"
    /\ ~LoopCond(tones_idx)
    /\ pc' = "render"
    /\ UNCHANGED <<i, beepVars, mixVars>>

AddSilence ==
    /\ pc = "silence"
    /\ tones' = [tones EXCEPT ![tones_idx] = [hz |-> 0, db |-> SilenceDb, us |-> Us(gap)]]
    /\ tones_idx' = tones_idx + 1
    /\ pc' = "beep"
    /\ UNCHANGED <<i, beeps_idx, beeps, gap, beep, mixVars>>

AddBeep ==
    /\ pc = "beep"
    /\ tones' = [tones EXCEPT ![tones_idx] =
                    [hz |-> beeps[beep].freq, db |-> beeps[beep].att,
                     us |-> Us(beeps[beep].len)]]
    /\ tones_idx' = tones_idx + 1
    /\ pc' = "advance"
    /\ UNCHANGED <<i, beeps_idx, beeps, gap, beep, mixVars>>

Advance ==
    /\ pc = "advance"
    /\ beeps' = [k \in DOMAIN beeps |->
                    [beeps[k] EXCEPT !.next = AdvanceNext(beeps[k], gap)]]
    /\ pc' = "while"
    /\ UNCHANGED <<i, beeps_idx, tones_idx, tones, gap, beep, mixVars>>

NextBeep ==
    \/ DrawNext
    \/ FindNext
    \/ LoopExit
    \/ AddSilence
    \/ AddBeep
    \/ Advance

SpecBeep == InitBeep /\ [][NextBeep]_vars

(***************************************************************************)
(* Tone scheduler: the claims.                                             *)
(***************************************************************************)
\* Pair j (j >= 1) of the sequence is the silence tones[2j-1] and the beep
\* tones[2j]; this is the number of pairs fully written.
PairsDone == (tones_idx - 1) \div 2

OneSource == beeps_idx = 0 /\ beeps[0].intv >= 1

\* C1 (as stated): with exactly one source of interval I >= 1, every
\* (silence, beep) pair after the first has durations summing to I*1000 us.
C1_PairSumIsInterval ==
    OneSource =>
        \A j \in 2..PairsDone :
            tones[2 * j - 1].us + tones[2 * j].us = Us(beeps[0].intv)

\* C1 (amended): with exactly one source of interval I >= 1 and length L,
\* in every pair after the first the silence alone lasts I*1000 us and the
\* beep L*1000 us, so the pair sums to (I + L)*1000 us.
C1_PairSumIsIntervalPlusLength ==
    OneSource =>
        \A j \in 2..PairsDone :
            /\ tones[2 * j - 1].us = Us(beeps[0].intv)
            /\ tones[2 * j].us = Us(beeps[0].len)
            /\ tones[2 * j - 1].us + tones[2 * j].us
                  = Us(beeps[0].intv + beeps[0].len)

\* One source with a beep of at least 1 ms has been scheduled to the end.
C1_Witness ==
    /\ OneSource
    /\ beeps[0].len >= 1
    /\ pc = "render"
    /\ PairsDone >= 2

\* C2: at every scheduling step the source whose beep is appended holds a
\* countdown no greater than any other source's, and is the earliest source
\* of the list holding that countdown; the gap is that countdown and the
\* appended beep carries that source's frequency, attenuation and length.
C2_MinimalEarliestSelected ==
    (pc \in {"silence", "beep", "advance"}) =>
        /\ beep \in 0..beeps_idx
        /\ gap = beeps[beep].next
        /\ \A k \in 0..beeps_idx : beeps[beep].next <= beeps[k].next
        /\ \A k \in 0..(beep - 1) : beeps[k].next > beeps[beep].next
        /\ pc = "advance" =>
              tones[tones_idx - 1] = [hz |-> beeps[beep].freq, db |-> beeps[beep].att,
                                      us |-> Us(beeps[beep].len)]

\* Two sources tie on the minimal countdown and the beep has been appended.
C2_Witness ==
    /\ pc = "advance"
    /\ \E k \in 0..beeps_idx : k # beep /\ beeps[k].next = gap

IsSilence(t) == t.hz = 0 /\ t.db = SilenceDb

IsBeepOfSomeSource(t) ==
    \E k \in 0..beeps_idx :
        t = [hz |-> beeps[k].freq, db |-> beeps[k].att, us |-> Us(beeps[k].len)]

\* C3: the sequence never holds more than its 30 slots, and whenever a
\* scheduling step has completed (also at the end) it is the start silence
\* followed by whole (silence, beep) pairs, the last tone being a beep.
C3_CapacityAndWholePairs ==
    /\ tones_idx <= TonesLen
    /\ (pc \in {"while", "render"}) =>
          /\ tones_idx = 2 * PairsDone + 1
          /\ tones[0] = StartSilence
          /\ \A j \in 1..PairsDone :
                IsSilence(tones[2 * j - 1]) /\ IsBeepOfSomeSource(tones[2 * j])
          /\ \A k \in tones_idx..(TonesLen - 1) : tones[k] = ZeroTone

\* The loop has ended with the sequence as full as it gets.
C3_Witness ==
    /\ pc = "render"
    /\ tones_idx = TonesLen - 1
    /\ IsBeepOfSomeSource(tones[tones_idx - 1])

\* The countdown of source k is the one the initialization drew.
JustDrawn(k) == (pc = "rand" /\ k < i) \/ (pc = "while" /\ tones_idx = 1)

\* C4 (as stated): for every source of interval I >= 1 and every value of
\* rand() in 0..RAND_MAX, the initial countdown lies in 1..I.
C4_InitialCountdownInRange ==
    \A k \in 0..beeps_idx :
        (JustDrawn(k) /\ beeps[k].intv >= 1) => beeps[k].next \in 1..beeps[k].intv

\* The scheduling step under way is the first one of the run.
FirstStep ==
    \/ pc = "silence" /\ tones_idx = 1
    \/ pc = "beep" /\ tones_idx = 2
    \/ pc = "advance" /\ tones_idx = 3

InStep == pc \in {"silence", "beep", "advance"}

\* At least one advance has been done.
Advanced ==
    \/ pc \in {"while", "silence", "render"} /\ tones_idx >= 3
    \/ pc = "beep" /\ tones_idx >= 4
    \/ pc = "advance" /\ tones_idx >= 5

\* C12: the first tone always is the silence (0 Hz, -99 dB, 500000 us);
\* every step appends a silence (0 Hz, -99 dB, gap*1000 us), gap being the
\* selected source's countdown, and then a beep with the selected source's
\* frequency, attenuation and length*1000 us; with one source (F, A, L)
\* every beep tone is (F, A, L*1000).
C12_ToneSequenceShape ==
    /\ tones[0] = [hz |-> 0, db |-> -99, us |-> 500000]
    /\ (pc \in {"rand", "while", "silence", "render"}) => tones_idx = 2 * PairsDone + 1
    /\ pc = "beep" =>
          /\ tones_idx = 2 * PairsDone + 2
          /\ gap = beeps[beep].next
          /\ tones[tones_idx - 1] = [hz |-> 0, db |-> -99, us |-> gap * 1000]
    /\ pc = "advance" =>
          /\ tones_idx = 2 * PairsDone + 1
          /\ gap = beeps[beep].next
          /\ tones[tones_idx - 2] = [hz |-> 0, db |-> -99, us |-> gap * 1000]
          /\ tones[tones_idx - 1] = [hz |-> beeps[beep].freq, db |-> beeps[beep].att,
                                      us |-> beeps[beep].len * 1000]
    /\ \A j \in 1..PairsDone :
          /\ tones[2 * j - 1].hz = 0 /\ tones[2 * j - 1].db = -99
          /\ \E k \in 0..beeps_idx :
                tones[2 * j] = [hz |-> beeps[k].freq, db |-> beeps[k].att,
                                us |-> beeps[k].len * 1000]
    /\ beeps_idx = 0 =>
          \A j \in 1..PairsDone :
              tones[2 * j] = [hz |-> beeps[0].freq, db |-> beeps[0].att,
                              us |-> beeps[0].len * 1000]

\* The second of two sources is selected with a gap of at least 1 ms and a
\* beep of at least 1 ms, and both tones of the step are written.
C12_Witness ==
    /\ pc = "advance"
    /\ beeps_idx = 1
    /\ beep = 1
    /\ gap >= 1
    /\ beeps[1].len >= 1
    /\ tones[tones_idx - 2].us >= 1000
    /\ tones[tones_idx - 1].us >= 1000

\* C13: the advance of a step with gap g sets every source's countdown to
\* its interval if the countdown is <= g and to countdown - g otherwise;
\* no other step changes a countdown once drawn, and no step changes any
\* other field of a source.
C13_AdvanceRule ==
    [][ /\ \A k \in 0..beeps_idx :
              /\ beeps'[k].freq = beeps[k].freq
              /\ beeps'[k].att = beeps[k].att
              /\ beeps'[k].len = beeps[k].len
              /\ beeps'[k].intv = beeps[k].intv
        /\ pc = "advance" =>
              \A k \in 0..beeps_idx :
                  beeps'[k].next = IF beeps[k].next <= gap
                                   THEN beeps[k].intv
                                   ELSE beeps[k].next - gap
        /\ pc \in {"while", "silence", "beep", "render"} => beeps' = beeps
      ]_vars

\* An advance has reset one source to its interval and counted another
\* one down below its interval.
C13_Witness ==
    /\ pc = "while"
    /\ tones_idx >= 3
    /\ \E k \in 0..beeps_idx : beeps[k].next = beeps[k].intv /\ beeps[k].intv >= 2
    /\ \E k \in 0..beeps_idx : beeps[k].next >= 1 /\ beeps[k].next < beeps[k].intv

\* Exactly one source has interval 0, every other one an interval >= 1.
ZeroCase ==
    \E z \in 0..beeps_idx :
        /\ beeps[z].intv = 0
        /\ \A k \in 0..beeps_idx \ {z} : beeps[k].intv >= 1
ZeroSource == CHOOSE z \in 0..beeps_idx : beeps[z].intv = 0

BeepTone(k) == [hz |-> beeps[k].freq, db |-> beeps[k].att, us |-> beeps[k].len * 1000]

\* C14 (as stated): with one source of interval 0, that source is the one
\* selected in every iteration, from the first one on, and every beep of
\* the sequence is its beep.
C14_ZeroSourceAlwaysSelected ==
    ZeroCase =>
        /\ InStep => beep = ZeroSource
        /\ \A j \in 1..PairsDone : tones[2 * j] = BeepTone(ZeroSource)

\* C14 (amended): with one source of interval 0, the first iteration
\* selects the earliest source whose initial countdown is the least one
\* (the interval-0 source, whose countdown is 1, or a source before it that
\* also drew 1); every later iteration selects the interval-0 source with a
\* gap of 0, so every beep after the first is its beep.
C14_ZeroSourceSelectedAfterFirst ==
    ZeroCase =>
        /\ (InStep /\ FirstStep) =>
              /\ beep \in 0..ZeroSource
              /\ gap = 1
              /\ beeps[beep].next = 1
        /\ (InStep /\ ~FirstStep) =>
              /\ beep = ZeroSource
              /\ gap = 0
        /\ \A j \in 2..PairsDone :
              /\ tones[2 * j - 1].us = 0
              /\ tones[2 * j] = BeepTone(ZeroSource)

\* The interval-0 source is the second one; the first beep of the sequence
\* is the first source's and the later ones are the interval-0 source's.
C14_Witness ==
    /\ ZeroCase
    /\ beeps_idx = 1
    /\ ZeroSource = 1
    /\ pc = "render"
    /\ tones[2].hz = beeps[0].freq
    /\ tones[4].hz = beeps[1].freq

AllPositive == \A k \in 0..beeps_idx : beeps[k].intv >= 1

\* C17: if every source has an interval >= 1 then every countdown, once
\* drawn, is >= 1, every gap and every scheduled silence is >= 1 ms, and
\* from the first advance on every countdown lies in 1..interval.
C17_CountdownsStayPositive ==
    AllPositive =>
        /\ \A k \in 0..beeps_idx : (pc # "rand" \/ k < i) => beeps[k].next >= 1
        /\ InStep => gap >= 1
        /\ \A j \in 1..PairsDone : tones[2 * j - 1].us >= 1000
        /\ Advanced =>
              \A k \in 0..beeps_idx : beeps[k].next \in 1..beeps[k].intv

\* Two sources of interval >= 1 have been scheduled to the end, one of them
\* being counted down below its interval.
C17_Witness ==
    /\ AllPositive
    /\ beeps_idx = 1
    /\ pc = "render"
    /\ \E k \in 0..beeps_idx : beeps[k].next < beeps[k].intv

\* C18: a step appends exactly one beep, that of the earliest source with
\* the least countdown, however many sources hold that countdown, and its
\* advance resets every one of them to its interval without appending a
\* tone; so the beeps of the sequence are as many as the steps.
C18_TieOneBeepAllReset ==
    /\ []((pc \in {"while", "render"}) =>
             Cardinality({k \in 1..(tones_idx - 1) : tones[k].hz # 0}) = PairsDone)
    /\ [][ /\ pc = "silence" =>
                 /\ tones_idx' = tones_idx + 1
                 /\ tones'[tones_idx].hz = 0
           /\ pc = "beep" =>
                 /\ tones_idx' = tones_idx + 1
                 /\ tones'[tones_idx] = BeepTone(beep)
                 /\ beeps[beep].next = gap
                 /\ \A k \in 0..(beep - 1) : beeps[k].next > gap
                 /\ \A k \in 0..beeps_idx : beeps[k].next >= gap
           /\ pc = "advance" =>
                 /\ tones_idx' = tones_idx
                 /\ tones' = tones
                 /\ \A k \in 0..beeps_idx :
                       beeps[k].next = gap => beeps'[k].next = beeps[k].intv
           /\ pc \in {"rand", "while"} => tones' = tones /\ tones_idx' = tones_idx
         ]_vars

\* In a step after the first, the second source ties with the first one:
\* the beep appended is the first source's.
C18_Witness ==
    /\ pc = "advance"
    /\ tones_idx >= 5
    /\ beeps_idx = 1
    /\ beep = 0
    /\ beeps[1].next = gap
    /\ tones[tones_idx - 1].hz = beeps[0].freq

\* C20: the loop ends after 14 steps with 29 tones (the start silence and
\* 14 pairs); the 30th slot is never written: it is (0 Hz, 0 dB, 0 us) in
\* every state and when the array goes to the renderer.
C20_ExactLength ==
    /\ tones_idx <= 29
    /\ tones[29] = [hz |-> 0, db |-> 0, us |-> 0]
    /\ pc = "render" =>
          /\ tones_idx = 29
          /\ PairsDone = 14
          /\ \A k \in 1..28 : tones[k] # [hz |-> 0, db |-> 0, us |-> 0]

\* The loop has ended and the last tone written, in slot 29 of 30, is a beep.
C20_Witness ==
    /\ pc = "render"
    /\ tones[28].hz # 0
    /\ tones[29].hz = 0

(***************************************************************************)
(* sdr_mix: the stream mixer.                                              *)
(***************************************************************************)
\* Bounds of the mixer model.
MaxInputs == 2       \* input channels declared (the code allows 32)
MaxStream == 2       \* longest input file in bytes
MaxFrame == 2        \* largest block size in bytes (0 is admitted by -b)
MaxErr == 1          \* read()/write() calls that may fail in one run

\* Program constants of the mixer.
Offset == 128        \* the unsigned value of zero signal
ByteRange == 256
S8Min == -128
S8Max == 127

\* A gain is the exact ratio num/den (den > 0) of the double it stands for.
One == [num |-> 1, den |-> 1]
Gains == {[num |-> 1, den |-> 2], One, [num |-> 2, den |-> 1]}

\* The sample bytes of the input files: all zero signal, or a wave that
\* reaches both ends of the byte range and differs from channel to channel.
Wave == <<255, 0, 191, 64, 127, 129, 1, 254>>
Sample(sig, c, p) ==
    IF sig = "zero" THEN Offset ELSE Wave[((3 * c + p) % Len(Wave)) + 1]

Min(a, b) == IF a < b THEN a ELSE b
Max(a, b) == IF a > b THEN a ELSE b

\* Integer division rounding toward zero: the integral part a double keeps
\* when it is converted to an integer type.
TruncDiv(a, d) == IF a >= 0 THEN a \div d ELSE 0 - ((0 - a) \div d)

\* (int8_t) of an int: the value modulo 256 in -128..127.
NarrowInt(x) == ((x - S8Min) % ByteRange) + S8Min

\* (int8_t) of a double with integral part x: x when it fits; otherwise the
\* conversion is undefined, and the build wraps it or saturates it.
NarrowDouble(x) ==
    IF x >= S8Min /\ x <= S8Max THEN x
    ELSE IF narrow = "wrap" THEN NarrowInt(x)
    ELSE IF x < S8Min THEN S8Min ELSE S8Max

\* blk_cs8[k] = (int8_t)(blk_cu8[k] - 128)
ConvFastOff(b) == NarrowInt(b - S8Max)
ConvFast(b) == NarrowInt(b - Offset)

\* (int8_t)((blk_cu8[k] - 128) * inputs[i].gain)
ConvGain(b, g) == NarrowDouble(TruncDiv((b - Offset) * g.num, g.den))

\* convert and attenuate the first input: the bypass for a gain of exactly 1.0
ConvFirst(b, g) == IF g = One THEN ConvFast(b) ELSE ConvGain(b, g)

\* blk_cs8[k] += (int8_t)(...)
MixAdd(acc, v) == NarrowInt(acc + v)

\* blk_cu8[k] = (uint8_t)(blk_cs8[k] + 128)
ToU8Signed(v) == v + S8Max
ToU8(v) == (v + Offset) % ByteRange

\* What read(fd, blk_cu8, frame_size) may return on channel c without
\* failing: 0 at the end of the file or for an empty block, else any count
\* from 1 up to the block size and the bytes left.
ReadCounts(c) ==
    LET left == Len(files[c]) - pos[c] IN
    IF left = 0 \/ frame_size = 0 THEN {0} ELSE 1..Min(left, frame_size)

\* What a read() on channel c returns when it fills as much of the block as
\* the file has left.
FullCount(c) == Min(Len(files[c]) - pos[c], frame_size)

\* if (rn > write_size) write_size = rn;
WriteSizeFirst(ws, rn) == ws
WriteSize(ws, rn) == IF rn > ws THEN rn ELSE ws

\* One call of read() or write(): the descriptor and the value returned.
Call(fd, n) == [fd |-> fd, n |-> n]

\* The block after a read of r bytes from channel c.
ReadInto(c, r) == [k \in 0..(frame_size - 1) |->
                      IF k < r THEN files[c][pos[c] + k + 1] ELSE blk_cu8[k]]

\* The first n bytes of a block, as the sequence write() appends.
Bytes(blk, n) == [k \in 1..n |-> blk[k - 1]]

\* if (write_size != frame_size) break;
LastBlock(w, f) == w # f

\* The input files of a run: for every channel a prefix of its zero signal
\* or of its wave; and, for a single channel, every file of one byte.
InputFiles(idx) ==
    { [c \in 0..idx |-> [p \in 1..len[c] |-> Sample(sig, c, p - 1)]] :
        sig \in {"zero", "wave"}, len \in [0..idx -> 0..MaxStream] }
    \cup (IF idx = 0 THEN { [c \in 0..0 |-> <<b>>] : b \in 0..(ByteRange - 1) } ELSE {})

\* The output descriptor, numbered after the inputs'.
w_fd == inputs_idx + 1

\* sdr_mix: the state when the mixing loop starts (options read, every
\* input and the output opened, both blocks allocated).
InitMix ==
    /\ pc = "read0"
    /\ i = 0
    /\ beeps_idx = 0 /\ beeps = <<>> /\ tones_idx = 0 /\ tones = <<>>
    /\ gap = 0 /\ beep = NULL
    /\ inputs_idx \in 0..(MaxInputs - 1)
    /\ inputs \in [0..inputs_idx -> [gain : Gains]]
    /\ frame_size \in 0..MaxFrame
    /\ blk_cu8 = [k \in 0..(frame_size - 1) |-> 0]
    /\ blk_cs8 = [k \in 0..(frame_size - 1) |-> 0]
    /\ write_size = 0
    /\ rns = 0
    /\ files \in InputFiles(inputs_idx)
    /\ pos = [c \in 0..inputs_idx |-> 0]
    /\ out = <<>>
    /\ fds = 0..w_fd
    /\ errs = 0
    /\ fail = "none"
    /\ narrow \in {"wrap", "saturate"}
    /\ io = <<>>
    /\ short = FALSE

\* read first input; convert and attenuate; zero remainder
ReadFirst ==
    /\ pc = "read0"
    /\ \E r \in ReadCounts(0) :
          /\ rns' = r
          /\ write_size' = r
          /\ blk_cu8' = ReadInto(0, r)
          /\ blk_cs8' = [k \in 0..(frame_size - 1) |->
                            IF k < r THEN ConvFirst(blk_cu8'[k], inputs[0].gain) ELSE 0]
          /\ pos' = [pos EXCEPT ![0] = @ + r]
          /\ io' = <<Call(0, r)>>
          /\ short' = (short \/ r < FullCount(0))
    /\ i' = 1
    /\ pc' = IF inputs_idx >= 1 THEN "readn" ELSE "write"
    /\ UNCHANGED <<beepVars, inputs_idx, inputs, frame_size, files, out, fds,
                   errs, fail, narrow>>

\* read first input: read() fails, break out of the mixing loop
ReadFirstFail ==
    /\ pc = "read0"
    /\ errs < MaxErr
    /\ rns' = -1
    /\ errs' = errs + 1
    /\ fail' = "r0"
    /\ io' = <<Call(0, -1)>>
    /\ pc' = "close"
    /\ UNCHANGED <<i, beepVars, inputs_idx, inputs, frame_size, blk_cu8, blk_cs8,
                   write_size, files, pos, out, fds, narrow, short>>

\* read next inputs: one pass of the for loop, read and mix channel i
ReadNext ==
    /\ pc = "readn"
    /\ i <= inputs_idx
    /\ \E r \in ReadCounts(i) :
          /\ rns' = r
          /\ write_size' = WriteSize(write_size, r)
          /\ blk_cu8' = ReadInto(i, r)
          /\ blk_cs8' = [k \in 0..(frame_size - 1) |->
                            IF k < r
                            THEN MixAdd(blk_cs8[k], ConvGain(blk_cu8'[k], inputs[i].gain))
                            ELSE blk_cs8[k]]
          /\ pos' = [pos EXCEPT ![i] = @ + r]
          /\ io' = Append(io, Call(i, r))
          /\ short' = (short \/ r < FullCount(i))
    /\ i' = i + 1
    /\ pc' = IF i < inputs_idx THEN "readn" ELSE "write"
    /\ UNCHANGED <<beepVars, inputs_idx, inputs, frame_size, files, out, fds,
                   errs, fail, narrow>>

\* read next inputs: read() fails on channel i; the break leaves the for
\* loop only, so the next statement is the conversion and the write
ReadNextFail ==
    /\ pc = "readn"
    /\ i <= inputs_idx
    /\ errs < MaxErr
    /\ rns' = -1
    /\ errs' = errs + 1
    /\ fail' = "rn"
    /\ io' = Append(io, Call(i, -1))
    /\ pc' = "write"
    /\ UNCHANGED <<i, beepVars, inputs_idx, inputs, frame_size, blk_cu8, blk_cs8,
                   write_size, files, pos, out, fds, narrow, short>>

\* The block converted back to unsigned over its first write_size bytes.
Converted == [k \in 0..(frame_size - 1) |->
                 IF k < write_size THEN ToU8(blk_cs8[k]) ELSE blk_cu8[k]]

\* convert; write the whole block; leave the loop after a block that is not full
Write ==
    /\ pc = "write"
    /\ blk_cu8' = Converted
    /\ out' = out \o Bytes(Converted, write_size)
    /\ io' = Append(io, Call(w_fd, write_size))
    /\ pc' = IF LastBlock(write_size, frame_size) THEN "close" ELSE "read0"
    /\ UNCHANGED <<i, beepVars, inputs_idx, inputs, frame_size, blk_cs8, write_size,
                   rns, files, pos, fds, errs, fail, narrow, short>>

\* convert; write() fails or writes w < write_size bytes: break
WriteFail ==
    /\ pc = "write"
    /\ errs < MaxErr
    /\ blk_cu8' = Converted
    /\ \E w \in -1..(write_size - 1) :
          /\ out' = out \o Bytes(Converted, Max(w, 0))
          /\ io' = Append(io, Call(w_fd, w))
    /\ errs' = errs + 1
    /\ fail' = "w"
    /\ pc' = "close"
    /\ UNCHANGED <<i, beepVars, inputs_idx, inputs, frame_size, blk_cs8, write_size,
                   rns, files, pos, fds, narrow, short>>

\* close every input and the output
Close ==
    /\ pc = "close"
    /\ fds' = {}
    /\ pc' = "exit"
    /\ UNCHANGED <<i, beepVars, inputs_idx, inputs, frame_size, blk_cu8, blk_cs8,
                   write_size, rns, files, pos, out, errs, fail, narrow, io, short>>

NextMix ==
    \/ ReadFirst
    \/ ReadFirstFail
    \/ ReadNext
    \/ ReadNextFail
    \/ Write
    \/ WriteFail
    \/ Close

SpecMix == InitMix /\ [][NextMix]_vars

\* The mixing loop is sequential code that always takes its next step.
FairSpecMix == SpecMix /\ WF_vars(NextMix)

(***************************************************************************)
(* Stream mixer: the claims.                                               *)
(***************************************************************************)
\* The run has ended and no read() or write() has failed.
EndedClean == pc = "exit" /\ errs = 0

\* C5 (as stated): one input channel of gain 1.0, block size >= 1, no I/O
\* error, reads returning any count up to the block size: the bytes written
\* over the whole run are exactly the input bytes.
C5_SingleChannelIdentity ==
    (EndedClean /\ inputs_idx = 0 /\ inputs[0].gain = One /\ frame_size >= 1)
        => out = files[0]

\* C6 (as stated): a primary channel of N bytes and one secondary channel of
\* M > N bytes, both of gain 1.0, block size >= 1: the output is M bytes
\* long and its bytes at positions N..M-1 are the secondary channel's.
C6_SecondaryTail ==
    (/\ EndedClean /\ inputs_idx = 1 /\ frame_size >= 1
     /\ inputs[0].gain = One /\ inputs[1].gain = One
     /\ Len(files[0]) < Len(files[1]))
        => /\ Len(out) = Len(files[1])
           /\ \A p \in (Len(files[0]) + 1)..Len(files[1]) : out[p] = files[1][p]

AllZeroSignal == \A c \in 0..inputs_idx : \A p \in 1..Len(files[c]) : files[c][p] = Offset

\* C7: if every byte of every input channel is 128 then, whatever the
\* number of channels, the gains and the lengths, every byte written to the
\* output is 128.
C7_ZeroSignalStaysZero ==
    AllZeroSignal => \A p \in 1..Len(out) : out[p] = Offset

\* Several channels of zero signal, the primary with a gain other than 1.0,
\* have been mixed to the end and bytes were written.
C7_Witness ==
    /\ AllZeroSignal
    /\ inputs_idx >= 1
    /\ inputs[0].gain # One
    /\ pc = "exit"
    /\ Len(out) >= 2

\* The first input has just been read and converted: the unsigned block
\* holds its rns bytes and the accumulator their conversion.
FirstConverted == (pc = "readn" /\ i = 1) \/ (pc = "write" /\ inputs_idx = 0 /\ rns >= 0)

\* C8: with a primary gain of exactly 1.0 the accumulator the bypass leaves
\* for a byte is the one the general path, (int8_t)((b - 128) * 1.0), gives
\* for it.
C8_BypassEqualsGeneralPath ==
    (FirstConverted /\ inputs[0].gain = One) =>
        \A k \in 0..(rns - 1) : blk_cs8[k] = ConvGain(blk_cu8[k], One)

\* The bypass has converted a byte at each end of the byte range.
C8_Witness ==
    /\ FirstConverted
    /\ inputs[0].gain = One
    /\ rns >= 1
    /\ blk_cu8[0] \in {0, ByteRange - 1}

\* C9 (as stated): once a read of a secondary channel has failed, nothing
\* is written and nothing is read any more: the run is at the release of
\* the channels.
C9_SecondaryReadFailureAborts ==
    fail = "rn" => pc \in {"close", "exit"}

\* C10 (as stated): for every block size, 0 included, a run without I/O
\* error eventually leaves the mixing loop and closes every channel.
C10_Terminates ==
    <>(errs > 0 \/ (pc = "exit" /\ fds = {}))

\* The io log ends with a write() that wrote the whole of write_size bytes.
BlockWritten ==
    /\ Len(io) >= 1
    /\ io[Len(io)].fd = w_fd
    /\ io[Len(io)].n = write_size

\* The sum, over the reads among the first n calls of the iteration that
\* returned more than k bytes, of the byte at index k converted to signed,
\* scaled by the channel's gain, truncated toward zero and wrapped into
\* -128..127.
RECURSIVE MixSum(_, _)
MixSum(n, k) ==
    IF n = 0 THEN 0
    ELSE LET e == io[n] IN
         MixSum(n - 1, k) +
         (IF e.fd <= inputs_idx /\ e.n > k
          THEN NarrowInt(TruncDiv((files[e.fd][pos[e.fd] - e.n + k + 1] - 128)
                                      * inputs[e.fd].gain.num,
                                  inputs[e.fd].gain.den))
          ELSE 0)

InitMixOrder ==
    /\ pc = "read0"
    /\ i = 0
    /\ beeps_idx = 0 /\ beeps = <<>> /\ tones_idx = 0 /\ tones = <<>>
    /\ gap = 0 /\ beep = NULL
    /\ inputs_idx = MaxInputs
    /\ inputs = [c \in 0..inputs_idx |-> [gain |-> One]]
    /\ frame_size \in 1..MaxFrame
    /\ blk_cu8 = [k \in 0..(frame_size - 1) |-> 0]
    /\ blk_cs8 = [k \in 0..(frame_size - 1) |-> 0]
    /\ write_size = 0
    /\ rns = 0
    /\ \E len \in [0..inputs_idx -> 0..MaxStream] :
          files = [c \in 0..inputs_idx |-> [p \in 1..len[c] |-> Sample("zero", c, p - 1)]]
    /\ pos = [c \in 0..inputs_idx |-> 0]
    /\ out = <<>>
    /\ fds = 0..w_fd
    /\ errs = 0
    /\ fail = "none"
    /\ narrow = "wrap"
    /\ io = <<>>
    /\ short = FALSE

SpecMixOrder == InitMixOrder /\ [][NextMix]_vars

\* C16 (as stated): in every iteration that reaches the write, the calls
\* are one read of the primary channel, one read of each secondary channel
\* in declaration order, then the write: no channel is skipped or read
\* twice, also when a read fails.
C16_ReadsInDeclarationOrder ==
    (Len(io) >= 1 /\ io[Len(io)].fd = w_fd) =>
        /\ Len(io) = inputs_idx + 2
        /\ \A c \in 0..inputs_idx : io[c + 1].fd = c

\* The length of the longest input stream.
StreamMax ==
    CHOOSE m \in {Len(files[c]) : c \in 0..inputs_idx} :
        \A c \in 0..inputs_idx : Len(files[c]) <= m

\* C19: with a block of at least one byte, no I/O error and every read
\* returning min(block size, bytes left), the loop ends only when every
\* channel is read to its end, and the bytes written over the run number
\* the length of the longest channel.
C19_OutputLengthIsMax ==
    (frame_size >= 1 /\ errs = 0 /\ ~short) =>
        /\ Len(out) <= StreamMax
        /\ pc \in {"close", "exit"} =>
              /\ \A c \in 0..inputs_idx : pos[c] = Len(files[c])
              /\ Len(out) = StreamMax

\* Two channels, the secondary longer than the primary and longer than a
\* block, have been mixed to the end with full reads only.
C19_Witness ==
    /\ EndedClean
    /\ ~short
    /\ inputs_idx = 1
    /\ frame_size = 1
    /\ Len(files[0]) = 1
    /\ Len(files[1]) = 2
    /\ Len(out) = 2

(***************************************************************************)
(* sdr_mix: the options, read one by one by the getopt() loop, the check   *)
(* for inputs and the opening of the files.                                *)
(***************************************************************************)
InputsLen == 32      \* input_t inputs[32]
MaxGainOpts == 1     \* channels an -g has given a gain other than their default

\* The gain a slot holds without -g: 0.0 in the zeroed array, 1.0 after -r.
Zero == [num |-> 0, den |-> 1]
DefaultGain(in) == IF in.path THEN One ELSE Zero

\* The slots, other than slot k, whose gain an -g has changed.
Regained(k) == {n \in 0..(InputsLen - 1) \ {k} : inputs[n].gain # DefaultGain(inputs[n])}

\* if (inputs[inputs_idx].path) inputs_idx += 1;
NextSlot(idx, used) == IF used THEN idx + 1 ELSE idx

\* sdr_mix: the state before the first option: inputs[32] = {0}, where
\* path tells whether the slot's path is set (not NULL).
InitOpts ==
    /\ pc = "getopt"
    /\ i = 0
    /\ beeps_idx = 0 /\ beeps = <<>> /\ tones_idx = 0 /\ tones = <<>>
    /\ gap = 0 /\ beep = NULL
    /\ inputs_idx = 0
    /\ inputs = [k \in 0..(InputsLen - 1) |-> [path |-> FALSE, gain |-> Zero]]
    /\ frame_size = 0
    /\ blk_cu8 = <<>>
    /\ blk_cs8 = <<>>
    /\ write_size = 0
    /\ rns = 0
    /\ files = <<>>
    /\ pos = <<>>
    /\ out = <<>>
    /\ fds = {}
    /\ errs = 0
    /\ fail = "none"
    /\ narrow = "wrap"
    /\ io = <<>>
    /\ short = FALSE

optsUnchanged == <<i, beepVars, frame_size, blk_cu8, blk_cs8, write_size, rns,
                   files, pos, out, errs, fail, narrow, io, short>>

\* case 'r': the next slot is inside the array
OptR ==
    /\ pc = "getopt"
    /\ LET idx == NextSlot(inputs_idx, inputs[inputs_idx].path) IN
          /\ idx < InputsLen
          /\ inputs_idx' = idx
          /\ inputs' = [inputs EXCEPT ![idx] = [path |-> TRUE, gain |-> One]]
    /\ UNCHANGED <<pc, fds, optsUnchanged>>

\* case 'r': the next slot is past the end of the array; the two stores
\* go outside it and what the run does from there on is undefined
OptROutside ==
    /\ pc = "getopt"
    /\ LET idx == NextSlot(inputs_idx, inputs[inputs_idx].path) IN
          /\ idx >= InputsLen
          /\ inputs_idx' = idx
    /\ pc' = "undefined"
    /\ UNCHANGED <<inputs, fds, optsUnchanged>>

\* case 'g'
OptG ==
    /\ pc = "getopt"
    /\ Cardinality(Regained(inputs_idx)) < MaxGainOpts
    /\ \E g \in Gains :
          inputs' = [inputs EXCEPT ![inputs_idx].gain = g]
    /\ UNCHANGED <<pc, inputs_idx, fds, optsUnchanged>>

\* getopt() returns -1: no option is left
OptsEnd ==
    /\ pc = "getopt"
    /\ pc' = "check"
    /\ UNCHANGED <<inputs_idx, inputs, fds, optsUnchanged>>

\* if (!inputs[0].path) exit(1);
NoInputs ==
    /\ pc = "check"
    /\ ~inputs[0].path
    /\ pc' = "exit1"
    /\ UNCHANGED <<inputs_idx, inputs, fds, optsUnchanged>>

\* every input and the output open: the mixing loop starts
OpenAll ==
    /\ pc = "check"
    /\ inputs[0].path
    /\ fds' = 0..w_fd
    /\ pc' = "mixing"
    /\ UNCHANGED <<inputs_idx, inputs, optsUnchanged>>

\* an input or the output fails to open: exit(1) with those before it open
OpenFail ==
    /\ pc = "check"
    /\ inputs[0].path
    /\ \E n \in 0..w_fd : fds' = 0..(n - 1)
    /\ pc' = "exit1"
    /\ UNCHANGED <<inputs_idx, inputs, optsUnchanged>>

NextOpts ==
    \/ OptR
    \/ OptROutside
    \/ OptG
    \/ OptsEnd
    \/ NoInputs
    \/ OpenAll
    \/ OpenFail

SpecOpts == InitOpts /\ [][NextOpts]_vars

\* C11 (as stated): whatever -r and -g options are given, the channel
\* index stays inside the 32-slot array and 1 to 32 channels are declared
\* when mixing starts; a run without -r is rejected with no file opened.
C11_ChannelIndexInArray ==
    /\ inputs_idx \in 0..(InputsLen - 1)
    /\ pc = "mixing" =>
          /\ inputs_idx + 1 \in 1..InputsLen
          /\ \A k \in 0..inputs_idx : inputs[k].path
    /\ (pc \in {"check", "mixing", "exit1"} /\ ~inputs[0].path) =>
          (pc # "mixing" /\ fds = {})

====
